---- MODULE Spec2Model ----
(***************************************************************************)
(* The trip planner workflow of ai-service: the graph built by             *)
(* create_trip_planner_graph (trip_planner/agent.py), its eight task       *)
(* functions (trip_planner/utils/nodes), the router should_adjust_budget,  *)
(* and the callers run_trip_planner (main.py) and plan_trip (api.py).      *)
(* The graph engine that executes the waves, merges the partial updates    *)
(* and evaluates the router is not part of the sources; it is modelled     *)
(* from the design document (sections 4.2, 4.3, 5 and 7).                  *)
(***************************************************************************)
EXTENDS Integers, Sequences, FiniteSets, TLC

VARIABLES
    scenario,     \* which router / task outcomes the run is exercised with
    state,        \* the canonical State (TripPlannerState)
    pc,           \* engine position: "schedule", "wave", "finished", "returned"
    triggered,    \* nodes whose incoming edge fired and that have not run yet
    inflight,     \* nodes of the current wave whose task is still running
    snapshot,     \* the State handed to the nodes of the current wave
    outputs,      \* node -> what its task returned in the current wave
    order,        \* completion order of the tasks of the current wave
    fatal,        \* "none" or the fatal error of the run
    entries,      \* node -> number of times the node was entered
    adjustCount,  \* number of "adjust" loop-backs taken
    alwaysOver,   \* every execution of budget_coordinator left requires_adjustment
    lastExecuted, \* nodes of the last wave that was started
    lastLabel,    \* the last label returned by the router ("none" before)
    returned,     \* what the engine's run() reports: State and error
    result,       \* what the caller of run_trip_planner / plan_trip receives
    diagnostics,  \* overwrite fields for which the merge reported a conflict
    written,      \* State fields that merged node outputs have written
    probe         \* a function evaluated on its own: its input and its output

vars == <<scenario, state, pc, triggered, inflight, snapshot, outputs, order,
          fatal, entries, adjustCount, alwaysOver, lastExecuted, lastLabel,
          returned, result, diagnostics, written,
                   probe>>

---------------------------------------------------------------------------
(* Bounds and program constants *)

\* max_iterations of the initial State
MaxIterations == 2

\* the engine's defensive re-entry ceiling (not configured by the callers)
SafetyCeiling == 3

\* the user's budget
Budget == 3

\* NodeFailure results one wave may hold (node_failure scenario)
MaxFailures == 1

\* largest counter value of a State handed to the router on its own
MaxCounter == 3

\* longest option list handed to budget_coordinator_node on its own
MaxOptions == 2

\* most options a search returns to a research node evaluated on its own
MaxResults == 11

\* most activities handed to story_generator_node evaluated on its own
MaxActivities == 2

\* most calls of get_qdrant_client in one run of the module
MaxCalls == 3

\* a research node keeps the top 10 options
TopN == 10

\* miscellaneous expenses per day (estimate_costs)
MiscPerDay == 20

\* the fallback of budget_coordinator_node keeps the first five activities
FallbackActivities == 5

\* total costs budget_coordinator can arrive at: exactly the budget, or over it
Costs == {Budget, Budget + 1}

---------------------------------------------------------------------------
(* The graph of create_trip_planner_graph *)

START == "START"
END == "END"

Nodes ==
    {"transport", "accommodation", "activities", "story_generator", "dining",
     "key_phrases", "budget_coordinator", "itinerary_generator"}

\* budget_coordinator registered without defer=True
NoDeferred == {}

\* add_node(..., defer=True)
Deferred == {"budget_coordinator"}

\* add_edge calls of which one names a node that was never registered
EdgesToUnknownNode ==
    { <<START, "transport">>, <<START, "accommodation">>,
      <<START, "activities">>, <<START, "dining">>, <<START, "key_phrases">>,
      <<"activities", "story">>,
      <<"transport", "budget_coordinator">>,
      <<"accommodation", "budget_coordinator">>,
      <<"dining", "budget_coordinator">>,
      <<"key_phrases", "budget_coordinator">>,
      <<"story_generator", "budget_coordinator">>,
      <<"itinerary_generator", END>> }

\* add_edge calls that start story_generator from START, beside activities
EdgesStoryFromStart ==
    { <<START, "transport">>, <<START, "accommodation">>,
      <<START, "activities">>, <<START, "dining">>, <<START, "key_phrases">>,
      <<START, "story_generator">>,
      <<"transport", "budget_coordinator">>,
      <<"accommodation", "budget_coordinator">>,
      <<"dining", "budget_coordinator">>,
      <<"key_phrases", "budget_coordinator">>,
      <<"story_generator", "budget_coordinator">>,
      <<"itinerary_generator", END>> }

\* add_edge calls
Edges ==
    { <<START, "transport">>, <<START, "accommodation">>,
      <<START, "activities">>, <<START, "dining">>, <<START, "key_phrases">>,
      <<"activities", "story_generator">>,
      <<"transport", "budget_coordinator">>,
      <<"accommodation", "budget_coordinator">>,
      <<"dining", "budget_coordinator">>,
      <<"key_phrases", "budget_coordinator">>,
      <<"story_generator", "budget_coordinator">>,
      <<"itinerary_generator", END>> }

\* add_conditional_edges: the source node and the label -> target map
ConditionalSource == "budget_coordinator"

\* a target map that also maps the label "unexpected"
\* a target map whose "adjust" entry leads back to a research node
TargetMapRestart ==
    [adjust |-> "activities", generate |-> "itinerary_generator"]

TargetMapLoose ==
    [adjust |-> "budget_coordinator", generate |-> "itinerary_generator",
     unexpected |-> "itinerary_generator"]

TargetMap ==
    [adjust |-> "budget_coordinator", generate |-> "itinerary_generator"]

\* the six nodes that feed budget_coordinator, and the field each one writes
Research ==
    {"transport", "accommodation", "activities", "dining", "key_phrases",
     "story_generator"}

\* node names in lexicographic order (the engine's merge order)
NodeOrder ==
    <<"accommodation", "activities", "budget_coordinator", "dining",
      "itinerary_generator", "key_phrases", "story_generator", "transport">>

---------------------------------------------------------------------------
(* The State schema *)

\* a schema whose messages field carries no reducer
NoAccumulate == {}

\* fields merged with operator.add; every other field is overwritten
Accumulate == {"messages"}

InitialState ==
    [ transport_options     |-> "unset",
      accommodation_options |-> "unset",
      activities_options    |-> "unset",
      dining_options        |-> "unset",
      key_phrases           |-> "unset",
      activity_stories      |-> "unset",
      total_cost            |-> 0,
      remaining_budget      |-> Budget,
      requires_adjustment   |-> FALSE,
      adjustment_iteration  |-> 0,
      max_iterations        |-> MaxIterations,
      final_itinerary       |-> "unset",
      messages              |-> <<>> ]

---------------------------------------------------------------------------
(* The task functions.  Each takes the snapshot and the outcome o of the   *)
(* external calls it makes and yields either a partial update or a fault   *)
(* (an exception that leaves the task function).  A trace entry is         *)
(* <<node, text, amount>>: the text variant the node appends and the       *)
(* amount it prints in it (0 when the text names none).                    *)

Update(u) == [kind |-> "update", update |-> u]
Fault == [kind |-> "fault"]
Failure == [kind |-> "failure"]

\* outcomes of the external calls of the four search-and-filter nodes
SearchOutcomes == {"ok", "llm_error", "no_results", "search_error"}

\* search_*() is called outside any try; the LLM call and the parse are inside
\* it, and their failure falls back to the first ten of the sorted search
\* result.  The field holds either no option or up to ten options, and the
\* trace entry names only their number.
SearchAndFilter(n, field, snap, o) ==
    IF o = "search_error" THEN Fault
    ELSE LET options == IF o = "no_results" THEN "empty" ELSE "options"
         IN  Update([f \in {field, "messages"} |->
                        IF f = field THEN options
                        ELSE snap.messages \o << <<n, options, 0>> >>])

\* a transport node that returns its options under accommodation_options
transport_node_clobbering(snap, o) ==
    SearchAndFilter("transport", "accommodation_options", snap, o)

transport_node(snap, o) ==
    SearchAndFilter("transport", "transport_options", snap, o)

accommodation_node(snap, o) ==
    SearchAndFilter("accommodation", "accommodation_options", snap, o)

activities_node(snap, o) ==
    SearchAndFilter("activities", "activities_options", snap, o)

dining_node(snap, o) ==
    SearchAndFilter("dining", "dining_options", snap, o)

\* llm.invoke is outside the try; only the parse is inside it
LlmOutcomes == {"ok", "parse_error", "llm_error"}

key_phrases_node(snap, o) ==
    IF o = "llm_error" THEN Fault
    ELSE LET v == IF o = "parse_error" THEN "fallback" ELSE "generated"
         IN  Update([key_phrases |-> v,
                     messages |-> snap.messages \o << <<"key_phrases", v, 0>> >>])

\* get_llm is outside any try; the per-activity calls are inside
StoryOutcomes == {"ok", "llm_error", "llm_init_error"}

story_generator_node(snap, o) ==
    IF snap.activities_options \in {"unset", "empty", "default"}
    THEN Update([activity_stories |-> "empty",
                 messages |-> snap.messages \o
                                << <<"story_generator", "empty", 0>> >>])
    ELSE IF o = "llm_init_error" THEN Fault
    ELSE LET v == IF o = "llm_error" THEN "partial" ELSE "generated"
         IN  Update([activity_stories |-> v,
                     messages |-> snap.messages \o
                                    << <<"story_generator", v, 0>> >>])

\* outcomes of budget_coordinator: the LLM outcome and the cost of the selection
CoordinatorOutcomes == [llm : LlmOutcomes, cost : Costs]

budget_coordinator_node(snap, o) ==
    IF o.llm = "llm_error" THEN Fault
    ELSE LET adjustment_iteration == snap.adjustment_iteration
             total_cost == o.cost
             tag == IF o.llm = "parse_error" THEN "fallback" ELSE "complete"
             shown == IF o.llm = "parse_error" THEN 0 ELSE total_cost
         IN  Update([ total_cost           |-> total_cost,
                      remaining_budget     |-> Budget - total_cost,
                      requires_adjustment  |-> total_cost > Budget,
                      adjustment_iteration |-> adjustment_iteration,
                      messages |-> snap.messages \o
                                     << <<"budget_coordinator", tag, shown>> >> ])

itinerary_generator_node(snap, o) ==
    IF o = "llm_error" THEN Fault
    ELSE LET v == IF o = "parse_error" THEN "fallback" ELSE "generated"
         IN  Update([final_itinerary |-> v,
                     messages |-> snap.messages \o
                                    << <<"itinerary_generator", v, 0>> >>])

\* the outcomes each node's external calls can have
OutcomesOf(n) ==
    CASE n \in {"transport", "accommodation", "activities", "dining"}
                                      -> SearchOutcomes
      [] n = "key_phrases"            -> LlmOutcomes
      [] n = "story_generator"        -> StoryOutcomes
      [] n = "budget_coordinator"     -> CoordinatorOutcomes
      [] n = "itinerary_generator"    -> LlmOutcomes

\* add_node(name, task function)
TaskOf(n, snap, o) ==
    CASE n = "transport"            -> transport_node(snap, o)
      [] n = "accommodation"        -> accommodation_node(snap, o)
      [] n = "activities"           -> activities_node(snap, o)
      [] n = "dining"               -> dining_node(snap, o)
      [] n = "key_phrases"          -> key_phrases_node(snap, o)
      [] n = "story_generator"      -> story_generator_node(snap, o)
      [] n = "budget_coordinator"   -> budget_coordinator_node(snap, o)
      [] n = "itinerary_generator"  -> itinerary_generator_node(snap, o)

\* an initial State that holds the fields of the request only
RequestFieldsOnly ==
    {"destination", "origin", "travel_dates", "duration", "budget",
     "preferred_activities", "constraints"}

\* the keys of the initial State transform_request_to_state builds
InitialFields ==
    {"destination", "origin", "travel_dates", "duration", "budget",
     "preferred_activities", "constraints",
     "transport_options", "accommodation_options", "activities_options",
     "dining_options", "key_phrases", "activity_stories",
     "selected_transport", "selected_accommodation", "selected_activities",
     "selected_restaurants", "total_cost", "remaining_budget",
     "cost_breakdown", "requires_adjustment", "adjustment_iteration",
     "max_iterations", "final_itinerary", "messages"}

\* the State keys each node reads (state["key"] and state.get("key", ...))
ReadsOf(n) ==
    CASE n = "transport" ->
            {"destination", "origin", "travel_dates", "constraints", "budget",
             "messages"}
      [] n = "accommodation" ->
            {"destination", "travel_dates", "duration", "constraints",
             "budget", "messages"}
      [] n = "activities" ->
            {"destination", "preferred_activities", "duration", "constraints",
             "messages"}
      [] n = "dining" ->
            {"destination", "preferred_activities", "constraints", "duration",
             "budget", "messages"}
      [] n = "key_phrases" -> {"destination", "messages"}
      [] n = "story_generator" ->
            {"activities_options", "destination", "messages"}
      [] n = "budget_coordinator" ->
            {"transport_options", "accommodation_options",
             "activities_options", "dining_options", "duration", "budget",
             "adjustment_iteration", "max_iterations", "destination",
             "origin", "preferred_activities", "constraints", "messages"}
      [] n = "itinerary_generator" ->
            {"destination", "budget", "duration", "remaining_budget",
             "selected_transport", "selected_accommodation",
             "selected_activities", "selected_restaurants", "cost_breakdown",
             "total_cost", "key_phrases", "activity_stories", "messages"}

\* the keys of budget_coordinator_node's return value that the State record
\* of this module leaves out
SelectionFields ==
    {"selected_transport", "selected_accommodation", "selected_activities",
     "selected_restaurants", "cost_breakdown"}

\* the overwrite field(s) each node writes
WritesOf(n) ==
    CASE n = "transport"            -> {"transport_options"}
      [] n = "accommodation"        -> {"accommodation_options"}
      [] n = "activities"           -> {"activities_options"}
      [] n = "dining"               -> {"dining_options"}
      [] n = "key_phrases"          -> {"key_phrases"}
      [] n = "story_generator"      -> {"activity_stories"}
      [] n = "budget_coordinator"   ->
            {"total_cost", "remaining_budget", "requires_adjustment",
             "adjustment_iteration"}
      [] n = "itinerary_generator"  -> {"final_itinerary"}

---------------------------------------------------------------------------
(* The router *)

\* state.get(key, default)
Get(st, key, default) == IF key \in DOMAIN st THEN st[key] ELSE default

\* a router that still loops back when the counter has reached the ceiling
should_adjust_budget_inclusive(st) ==
    LET requires_adjustment == Get(st, "requires_adjustment", FALSE)
        adjustment_iteration == Get(st, "adjustment_iteration", 0)
        max_iterations == Get(st, "max_iterations", MaxIterations)
    IN  IF requires_adjustment /\ adjustment_iteration <= max_iterations
        THEN [label |-> "adjust",
              state |-> [adjustment_iteration |-> adjustment_iteration + 1]
                            @@ st]
        ELSE [label |-> "generate", state |-> st]

\* returns the label and the State argument as the function leaves it
should_adjust_budget(st) ==
    LET requires_adjustment == Get(st, "requires_adjustment", FALSE)
        adjustment_iteration == Get(st, "adjustment_iteration", 0)
        max_iterations == Get(st, "max_iterations", MaxIterations)
    IN  IF requires_adjustment /\ adjustment_iteration < max_iterations
        THEN [label |-> "adjust",
              state |-> [adjustment_iteration |-> adjustment_iteration + 1]
                            @@ st]
        ELSE [label |-> "generate", state |-> st]

\* a router that returns a label absent from the target map (test double)
unexpected_router(st) == [label |-> "unexpected", state |-> st]

---------------------------------------------------------------------------
(* The engine: scheduling, barrier, merge, routing *)

Scenarios == {"program", "routing_error", "node_failure", "write_conflict"}

\* the router registered on the conditional edge
Route(sc, st) ==
    IF sc = "routing_error" THEN unexpected_router(st)
    ELSE should_adjust_budget(st)

\* the router is evaluated on the just-merged State; the merge step is the
\* only point at which the canonical State changes, so what the router does
\* to its argument is not written back
StateAfterRouting(merged, r) == merged

\* targets of the plain edges leaving n
Successors(n) == { e[2] : e \in { d \in Edges : d[1] = n } }

\* the nodes of the next wave: a deferred node is held back while any
\* non-deferred node is still to run
Frontier(trig) ==
    IF trig \ Deferred # {} THEN trig \ Deferred ELSE trig

\* an engine without the circuit breaker
ReentryUnchecked(n, ent) == FALSE

\* the defensive circuit breaker: entering n once more would re-enter it
\* more often than the ceiling allows
ReentryExceeded(n, ent) == ent[n] > SafetyCeiling

\* one partial update merged into the State, field by field
MergeUpdate(st, upd) ==
    [ f \in DOMAIN st |->
        IF f \in DOMAIN upd
        THEN IF f \in Accumulate THEN st[f] \o upd[f] ELSE upd[f]
        ELSE st[f] ]

\* what the merge records for a node that reported a NodeFailure
DefaultUpdate(n) == [ f \in WritesOf(n) |-> "default" ]

\* the contribution of one task result to the merge
Contribution(n, r) ==
    CASE r.kind = "update"  -> r.update
      [] r.kind = "failure" -> DefaultUpdate(n)
      [] OTHER              -> << >>

\* the nodes of a wave whose contribution writes field f
WritersOf(f, outs) ==
    { n \in DOMAIN outs : f \in DOMAIN Contribution(n, outs[n]) }

\* overwrite fields written by more than one node of the wave: the merge
\* resolves them by node name and reports a warning for each
ConflictFields(outs) ==
    { f \in DOMAIN InitialState \ Accumulate :
        Cardinality(WritersOf(f, outs)) > 1 }

\* the State keys the merge writes for the result r of node n
FieldsOf(n, r) ==
    DOMAIN Contribution(n, r)
        \cup (IF n = "budget_coordinator" /\ r.kind = "update"
               THEN SelectionFields ELSE {})

RECURSIVE MergeInOrder(_, _, _)
MergeInOrder(st, seq, outs) ==
    IF seq = << >> THEN st
    ELSE LET n == Head(seq)
             next == IF n \in DOMAIN outs
                     THEN MergeUpdate(st, Contribution(n, outs[n]))
                     ELSE st
         IN  MergeInOrder(next, Tail(seq), outs)

\* outputs merged by node name, last name first: the first name wins
ReverseNameSequence(completion) ==
    [ i \in 1..Len(NodeOrder) |-> NodeOrder[Len(NodeOrder) + 1 - i] ]

\* outputs merged in the order the tasks completed
CompletionSequence(completion) == completion

\* the order in which the outputs of a wave are merged: by node name,
\* whatever the completion order was
MergeSequence(completion) == NodeOrder

MergeWave(st, outs, completion) ==
    MergeInOrder(st, MergeSequence(completion), outs)

\* an engine that treats a NodeFailure like a fault
FailureIsFatal(r) == r.kind \in {"fault", "failure"}

\* a NodeFailure is a value the engine degrades; a fault ends the run
IsFatal(r) == r.kind = "fault"

\* the results a task can hand to the engine; outs are the results the wave
\* has produced so far
\* test doubles of two tasks of the first wave, each writing an overwrite
\* field that another node of the wave writes too: dining also writes
\* transport_options, transport also writes accommodation_options
ConflictDouble(n, r) ==
    IF r.kind # "update" THEN r
    ELSE CASE n = "dining" ->
                Update(r.update @@ [transport_options |-> "from_dining"])
           [] n = "transport" ->
                Update(r.update @@ [accommodation_options |-> "from_transport"])
           [] OTHER -> r

ResultsOf(sc, n, snap, outs) ==
    LET failed == { m \in DOMAIN outs : outs[m].kind = "failure" }
    IN  { IF sc = "write_conflict"
          THEN ConflictDouble(n, TaskOf(n, snap, o))
          ELSE TaskOf(n, snap, o) : o \in OutcomesOf(n) }
            \cup (IF /\ sc = "node_failure"
                      /\ n \in Research
                      /\ Cardinality(failed) < MaxFailures
                   THEN {Failure} ELSE {})

NoReturn == [state |-> << >>, error |-> "pending"]

\* no function is being evaluated on its own
NoProbe == [in |-> << >>, out |-> << >>]

Init ==
    /\ scenario = "program"
    /\ state = InitialState
    /\ pc = "schedule"
    /\ triggered = Successors(START)
    /\ inflight = {}
    /\ snapshot = InitialState
    /\ outputs = << >>
    /\ order = << >>
    /\ fatal = "none"
    /\ entries = [n \in Nodes |-> 0]
    /\ adjustCount = 0
    /\ alwaysOver = TRUE
    /\ lastExecuted = {}
    /\ lastLabel = "none"
    /\ returned = NoReturn
    /\ result = NoReturn
    /\ diagnostics = {}
    /\ written = {}
    /\ probe = NoProbe

\* a run that failed unrecoverably starts every wave regardless
AlwaysSchedule(f) == TRUE

\* after a fatal error the next wave is not scheduled
MaySchedule(f) == f = "none"

\* a task that sees what the tasks of its wave that ended before it returned
LiveSnapshot(snap, st, outs, completion) == MergeInOrder(st, completion, outs)

\* the State a task of the wave receives: the State as it was when the wave
\* became eligible, whatever the other tasks of the wave have returned
SnapshotFor(snap, st, outs, completion) == snap

\* a task whose result is written to the canonical State as soon as it ends
WriteThrough(st, n, r) == MergeUpdate(st, Contribution(n, r))

\* the canonical State when the task of n has ended with r: a task holds no
\* ownership of it, only the merge step writes it
StateAfterTask(st, n, r) == st

\* start the next wave, or trip the circuit breaker
Schedule ==
    /\ pc = "schedule"
    /\ MaySchedule(fatal)
    /\ triggered # {}
    /\ LET fr == Frontier(triggered)
       IN  IF \E n \in fr : ReentryExceeded(n, entries)
           THEN /\ fatal' = "NonTerminatingGraph"
                /\ UNCHANGED <<pc, triggered, inflight, snapshot, outputs,
                               order, entries, lastExecuted>>
           ELSE /\ pc' = "wave"
                /\ inflight' = fr
                /\ triggered' = triggered \ fr
                /\ snapshot' = state
                /\ outputs' = << >>
                /\ order' = << >>
                /\ entries' = [n \in Nodes |->
                                 IF n \in fr THEN entries[n] + 1 ELSE entries[n]]
                /\ lastExecuted' = fr
                /\ UNCHANGED fatal
    /\ UNCHANGED <<scenario, state, adjustCount, alwaysOver, lastLabel,
                   returned, result, diagnostics, written,
                   probe>>

\* the task of node n ends; the engine keeps what it returned
NodeComplete(n) ==
    /\ pc = "wave"
    /\ n \in inflight
    /\ \E r \in ResultsOf(scenario, n,
                           SnapshotFor(snapshot, state, outputs, order),
                           outputs) :
          /\ outputs' = outputs @@ (n :> r)
          /\ fatal' = IF IsFatal(r) /\ fatal = "none" THEN "NodeFault" ELSE fatal
          /\ state' = StateAfterTask(state, n, r)
    /\ inflight' = inflight \ {n}
    /\ order' = Append(order, n)
    /\ UNCHANGED <<scenario, pc, triggered, snapshot, entries,
                   adjustCount, alwaysOver, lastExecuted, lastLabel, returned,
                   result, diagnostics, written,
                   probe>>

\* every task of the wave has ended: merge, then route
Merge ==
    /\ pc = "wave"
    /\ inflight = {}
    /\ LET merged == MergeWave(state, outputs, order)
           done == { n \in DOMAIN outputs : ~IsFatal(outputs[n]) }
           routed == ConditionalSource \in done
           r == Route(scenario, merged)
           mapped == r.label \in DOMAIN TargetMap
           plain == UNION { Successors(n) : n \in done \ {ConditionalSource} }
           target == IF routed /\ mapped THEN {TargetMap[r.label]} ELSE {}
       IN  /\ state' = IF routed THEN StateAfterRouting(merged, r) ELSE merged
           /\ triggered' = (triggered \cup plain \cup target) \ {END}
           /\ fatal' = IF fatal = "none" /\ routed /\ ~mapped
                       THEN "RoutingError" ELSE fatal
           /\ lastLabel' = IF routed THEN r.label ELSE lastLabel
           /\ adjustCount' = IF routed /\ r.label = "adjust"
                             THEN adjustCount + 1 ELSE adjustCount
           /\ alwaysOver' = IF routed
                            THEN alwaysOver /\ merged.requires_adjustment
                            ELSE alwaysOver
    /\ diagnostics' = diagnostics \cup ConflictFields(outputs)
    /\ written' = written \cup UNION { FieldsOf(n, outputs[n]) :
                                          n \in DOMAIN outputs }
    /\ outputs' = << >>
    /\ order' = << >>
    /\ pc' = "schedule"
    /\ UNCHANGED <<scenario, inflight, snapshot, entries, lastExecuted,
                   returned, result, probe>>

\* END reached with nothing pending, or a fatal error: run() reports
Finish ==
    /\ pc = "schedule"
    /\ fatal # "none" \/ triggered = {}
    /\ returned' = [state |-> <<state>>, error |-> fatal]
    /\ pc' = "finished"
    /\ UNCHANGED <<scenario, state, triggered, inflight, snapshot, outputs,
                   order, fatal, entries, adjustCount, alwaysOver,
                   lastExecuted, lastLabel, result, diagnostics, written,
                   probe>>

---------------------------------------------------------------------------
(* The callers of graph.invoke *)

Callers == {"run_trip_planner", "plan_trip"}

\* try: result = graph.invoke(...); return result / except: return None
run_trip_planner(ret) ==
    IF ret.error = "none"
    THEN [state |-> ret.state, error |-> "none"]
    ELSE [state |-> << >>, error |-> "None"]

\* try: result = graph.invoke(...); return trip / except: raise HTTPException
plan_trip(ret) ==
    IF ret.error = "none"
    THEN [state |-> ret.state, error |-> "none"]
    ELSE [state |-> << >>, error |-> "HTTPException"]

Return(c) ==
    /\ pc = "finished"
    /\ result' = IF c = "run_trip_planner" THEN run_trip_planner(returned)
                 ELSE plan_trip(returned)
    /\ pc' = "returned"
    /\ UNCHANGED <<scenario, state, triggered, inflight, snapshot, outputs,
                   order, fatal, entries, adjustCount, alwaysOver,
                   lastExecuted, lastLabel, returned, diagnostics, written,
                   probe>>

Next ==
    \/ Schedule
    \/ \E n \in Nodes : NodeComplete(n)
    \/ Merge
    \/ Finish
    \/ \E c \in Callers : Return(c)

Spec == Init /\ [][Next]_vars

\* the engine run with a router that returns a label the target map lacks
InitRouting ==
    /\ scenario = "routing_error"
    /\ state = InitialState
    /\ pc = "schedule"
    /\ triggered = Successors(START)
    /\ inflight = {}
    /\ snapshot = InitialState
    /\ outputs = << >>
    /\ order = << >>
    /\ fatal = "none"
    /\ entries = [n \in Nodes |-> 0]
    /\ adjustCount = 0
    /\ alwaysOver = TRUE
    /\ lastExecuted = {}
    /\ lastLabel = "none"
    /\ returned = NoReturn
    /\ result = NoReturn
    /\ diagnostics = {}
    /\ written = {}
    /\ probe = NoProbe

SpecRouting == InitRouting /\ [][Next]_vars

\* the engine run with research tasks that may report a NodeFailure
InitFailure ==
    /\ scenario = "node_failure"
    /\ state = InitialState
    /\ pc = "schedule"
    /\ triggered = Successors(START)
    /\ inflight = {}
    /\ snapshot = InitialState
    /\ outputs = << >>
    /\ order = << >>
    /\ fatal = "none"
    /\ entries = [n \in Nodes |-> 0]
    /\ adjustCount = 0
    /\ alwaysOver = TRUE
    /\ lastExecuted = {}
    /\ lastLabel = "none"
    /\ returned = NoReturn
    /\ result = NoReturn
    /\ diagnostics = {}
    /\ written = {}
    /\ probe = NoProbe

SpecFailure == InitFailure /\ [][Next]_vars

\* the engine run with two tasks of the first wave that write an overwrite
\* field another task of the wave writes
InitConflict ==
    /\ scenario = "write_conflict"
    /\ state = InitialState
    /\ pc = "schedule"
    /\ triggered = Successors(START)
    /\ inflight = {}
    /\ snapshot = InitialState
    /\ outputs = << >>
    /\ order = << >>
    /\ fatal = "none"
    /\ entries = [n \in Nodes |-> 0]
    /\ adjustCount = 0
    /\ alwaysOver = TRUE
    /\ lastExecuted = {}
    /\ lastLabel = "none"
    /\ returned = NoReturn
    /\ result = NoReturn
    /\ diagnostics = {}
    /\ written = {}
    /\ probe = NoProbe

SpecConflict == InitConflict /\ [][Next]_vars

---------------------------------------------------------------------------
(* budget_coordinator_node evaluated on its own: selection and costs *)

Min(a, b) == IF a < b THEN a ELSE b

\* seq[:k]
Prefix(seq, k) == SubSeq(seq, 1, Min(k, Len(seq)))

\* sum(item.get(key, 0) for item in seq)
RECURSIVE SumOf(_, _)
SumOf(seq, key) ==
    IF seq = << >> THEN 0
    ELSE Get(Head(seq), key, 0) + SumOf(Tail(seq), key)

\* a selection that is None when the id matches no option
SelectByIdOrNone(opts, id) ==
    LET matching == { i \in 1..Len(opts) : opts[i].id = id }
    IN  IF matching # {}
        THEN <<opts[CHOOSE i \in matching : \A j \in matching : i <= j]>>
        ELSE << >>

\* next((t for t in opts if t["id"] == id), opts[0] if opts else None);
\* None is the empty sequence, an option a sequence of one
SelectById(opts, id) ==
    LET matching == { i \in 1..Len(opts) : opts[i].id = id }
    IN  IF matching # {}
        THEN <<opts[CHOOSE i \in matching : \A j \in matching : i <= j]>>
        ELSE IF opts # << >> THEN <<opts[1]>> ELSE << >>

\* [a for a in opts if a["id"] in ids]
FilterByIds(opts, ids) == SelectSeq(opts, LAMBDA o : o.id \in ids)

\* a cost breakdown whose total leaves out the miscellaneous expenses
estimate_costs_without_misc(transport, accommodation, activities, restaurants, duration) ==
    LET transport_cost == SumOf(transport, "price")
        accommodation_cost == IF accommodation # << >>
                              THEN accommodation[1].total_price ELSE 0
        activities_cost == SumOf(activities, "price")
        dining_cost == SumOf(restaurants, "avg_cost_per_person")
        miscellaneous_cost == duration * MiscPerDay
    IN  [transport |-> transport_cost,
         accommodation |-> accommodation_cost,
         activities |-> activities_cost,
         dining |-> dining_cost,
         miscellaneous |-> miscellaneous_cost,
         total |-> transport_cost + accommodation_cost + activities_cost
                      + dining_cost]

\* estimate_costs with num_travelers = 1, its default
estimate_costs(transport, accommodation, activities, restaurants, duration) ==
    LET transport_cost == SumOf(transport, "price")
        accommodation_cost == IF accommodation # << >>
                              THEN accommodation[1].total_price ELSE 0
        activities_cost == SumOf(activities, "price")
        dining_cost == SumOf(restaurants, "avg_cost_per_person")
        miscellaneous_cost == duration * MiscPerDay
    IN  [transport |-> transport_cost,
         accommodation |-> accommodation_cost,
         activities |-> activities_cost,
         dining |-> dining_cost,
         miscellaneous |-> miscellaneous_cost,
         total |-> transport_cost + accommodation_cost + activities_cost
                      + dining_cost + miscellaneous_cost]

\* what budget_coordinator_node returns for the State st when the LLM
\* answered llm: the try branch, or the except branch when parsing failed
budget_coordinator_selection(st, llm) ==
    LET parsed == llm.parsed
        selected_transport ==
            IF parsed THEN SelectById(st.transport_options,
                                      llm.selected_transport_id)
            ELSE Prefix(st.transport_options, 1)
        selected_accommodation ==
            IF parsed THEN SelectById(st.accommodation_options,
                                      llm.selected_accommodation_id)
            ELSE Prefix(st.accommodation_options, 1)
        selected_activities ==
            IF parsed THEN FilterByIds(st.activities_options,
                                       llm.selected_activity_ids)
            ELSE Prefix(st.activities_options, FallbackActivities)
        selected_restaurants ==
            IF parsed THEN FilterByIds(st.dining_options,
                                       llm.selected_restaurant_ids)
            ELSE Prefix(st.dining_options, st.duration * 2)
        cost_breakdown ==
            estimate_costs(selected_transport, selected_accommodation,
                           selected_activities, selected_restaurants,
                           st.duration)
        total_cost == cost_breakdown.total
    IN  [selected_transport |-> selected_transport,
         selected_accommodation |-> selected_accommodation,
         selected_activities |-> selected_activities,
         selected_restaurants |-> selected_restaurants,
         cost_breakdown |-> cost_breakdown,
         total_cost |-> total_cost,
         remaining_budget |-> st.budget - total_cost,
         requires_adjustment |->
            IF parsed THEN ~(total_cost <= st.budget)
            ELSE total_cost > st.budget]

\* option lists of each kind, by length; ids and prices are 1, 2, ...
TransportLists ==
    { [i \in 1..n |-> [id |-> i, price |-> i]] : n \in 0..MaxOptions }

AccommodationLists ==
    { [i \in 1..n |-> [id |-> i, total_price |-> i]] : n \in 0..MaxOptions }

ActivityLists ==
    { [i \in 1..n |-> [id |-> i, price |-> i]] : n \in 0..MaxOptions }

DiningLists ==
    { [i \in 1..n |-> [id |-> i, avg_cost_per_person |-> i]] :
        n \in 0..MaxOptions }

\* the States budget_coordinator_node is evaluated on
CoordinatorInputs ==
    [transport_options : TransportLists,
     accommodation_options : AccommodationLists,
     activities_options : ActivityLists,
     dining_options : DiningLists,
     duration : {1, 2},
     budget : {MiscPerDay + MaxOptions}]

\* ids the LLM may name: 0 is the id of no option
IdSets == { {}, {0}, {0, 1}, 1..MaxOptions }

\* answers of the LLM: a selection, or text that does not parse
LlmSelections ==
    [parsed : {TRUE},
     selected_transport_id : 0..MaxOptions,
     selected_accommodation_id : 0..MaxOptions,
     selected_activity_ids : IdSets,
     selected_restaurant_ids : IdSets]
    \cup
    [parsed : {FALSE},
     selected_transport_id : {0},
     selected_accommodation_id : {0},
     selected_activity_ids : {{}},
     selected_restaurant_ids : {{}}]

InitCoordinator ==
    /\ scenario = "program"
    /\ state = InitialState
    /\ pc = "schedule"
    /\ triggered = Successors(START)
    /\ inflight = {}
    /\ snapshot = InitialState
    /\ outputs = << >>
    /\ order = << >>
    /\ fatal = "none"
    /\ entries = [n \in Nodes |-> 0]
    /\ adjustCount = 0
    /\ alwaysOver = TRUE
    /\ lastExecuted = {}
    /\ lastLabel = "none"
    /\ returned = NoReturn
    /\ result = NoReturn
    /\ diagnostics = {}
    /\ written = {}
    /\ \E st \in CoordinatorInputs : probe = [in |-> <<st>>, out |-> << >>]

\* budget_coordinator_node(state) runs: the LLM answers and the node returns
EvaluateCoordinator ==
    /\ Len(probe.in) = 1
    /\ probe.out = << >>
    /\ \E llm \in LlmSelections :
          probe' = [in |-> <<probe.in[1], llm>>,
                    out |-> <<budget_coordinator_selection(probe.in[1], llm)>>]
    /\ UNCHANGED <<scenario, state, pc, triggered, inflight, snapshot, outputs,
                   order, fatal, entries, adjustCount, alwaysOver,
                   lastExecuted, lastLabel, returned, result, diagnostics,
                   written>>

NextCoordinator == EvaluateCoordinator

SpecCoordinator == InitCoordinator /\ [][NextCoordinator]_vars

---------------------------------------------------------------------------
(* The research nodes evaluated on their own: the top 10 of a search *)

SearchNodes == {"transport", "accommodation", "activities", "dining"}

\* transport sorts by price, lowest first; the others by rating, highest
\* first (reverse=True)
Ascending(n) == n = "transport"

\* x goes before y in the sorted list of node n
Before(n, x, y) ==
    IF Ascending(n) THEN x.score < y.score ELSE x.score > y.score

\* sorted(...) is stable: x is put behind every item it does not go before
RECURSIVE InsertSorted(_, _, _)
InsertSorted(n, sorted, x) ==
    IF sorted = << >> THEN <<x>>
    ELSE IF Before(n, x, Head(sorted))
         THEN <<x>> \o sorted
         ELSE <<Head(sorted)>> \o InsertSorted(n, Tail(sorted), x)

\* sorted(all, key=..., reverse=...) of the first k items
RECURSIVE SortedAll(_, _, _)
SortedAll(n, all, k) ==
    IF k = 0 THEN << >>
    ELSE InsertSorted(n, SortedAll(n, all, k - 1), all[k])

\* a selection filled up from the whole sorted list, selected items included
select_top_refilled(n, all, llm) ==
    LET sorted_all == SortedAll(n, all, Len(all))
    IN  IF all = << >> THEN << >>
        ELSE IF ~llm.parsed THEN Prefix(sorted_all, TopN)
        ELSE LET selected == FilterByIds(all, llm.selected_ids)
                 needed == Min(TopN - Len(selected), Len(sorted_all))
                 filled ==
                    IF Len(selected) < TopN /\ Len(selected) < Len(all)
                    THEN selected \o Prefix(sorted_all, needed)
                    ELSE selected
             IN  Prefix(filled, TopN)

\* the options a research node returns for the search result all when the
\* LLM answered llm: the items it named, filled up to ten with the best of
\* the others, or the first ten of the sorted list when the call or the
\* parsing failed
select_top(n, all, llm) ==
    LET sorted_all == SortedAll(n, all, Len(all))
    IN  IF all = << >> THEN << >>
        ELSE IF ~llm.parsed THEN Prefix(sorted_all, TopN)
        ELSE LET selected == FilterByIds(all, llm.selected_ids)
                 remaining ==
                    SelectSeq(sorted_all,
                              LAMBDA o : o.id \notin llm.selected_ids)
                 needed == Min(TopN - Len(selected), Len(remaining))
                 filled ==
                    IF Len(selected) < TopN /\ Len(selected) < Len(all)
                    THEN selected \o Prefix(remaining, needed)
                    ELSE selected
             IN  Prefix(filled, TopN)

\* search results of k options with distinct ids, in the order the search
\* returned them; their prices or ratings rise along the list, or are equal
SearchResults ==
    { [i \in 1..k |-> [id |-> i, score |-> IF rising THEN i ELSE 1]] :
        k \in 0..MaxResults, rising \in BOOLEAN }

\* answers of the LLM for a search result: any list of ids, 0 being the id
\* of no option, or a failure of the call or of the parsing
LlmIdLists(all) ==
    [parsed : {TRUE}, selected_ids : SUBSET (0..Len(all))]
        \cup [parsed : {FALSE}, selected_ids : {{}}]

InitSearch ==
    /\ scenario = "program"
    /\ state = InitialState
    /\ pc = "schedule"
    /\ triggered = Successors(START)
    /\ inflight = {}
    /\ snapshot = InitialState
    /\ outputs = << >>
    /\ order = << >>
    /\ fatal = "none"
    /\ entries = [n \in Nodes |-> 0]
    /\ adjustCount = 0
    /\ alwaysOver = TRUE
    /\ lastExecuted = {}
    /\ lastLabel = "none"
    /\ returned = NoReturn
    /\ result = NoReturn
    /\ diagnostics = {}
    /\ written = {}
    /\ \E n \in SearchNodes, all \in SearchResults :
          probe = [in |-> <<[node |-> n, all |-> all]>>, out |-> << >>]

\* the node filters its search result: the LLM answers and the node returns
EvaluateSearch ==
    /\ Len(probe.in) = 1
    /\ probe.out = << >>
    /\ \E llm \in LlmIdLists(probe.in[1].all) :
          probe' = [in |-> <<probe.in[1], llm>>,
                    out |-> <<select_top(probe.in[1].node, probe.in[1].all,
                                         llm)>>]
    /\ UNCHANGED <<scenario, state, pc, triggered, inflight, snapshot, outputs,
                   order, fatal, entries, adjustCount, alwaysOver,
                   lastExecuted, lastLabel, returned, result, diagnostics,
                   written>>

NextSearch == EvaluateSearch

SpecSearch == InitSearch /\ [][NextSearch]_vars

---------------------------------------------------------------------------
(* story_generator_node evaluated on its own: lookup, generate, store *)

\* activities_options: the activity at position k has id k, or the empty id 0
ActivityIdLists ==
    UNION { [1..k -> 0..MaxActivities] : k \in 0..MaxActivities }

StoryInputs ==
    { acts \in ActivityIdLists : \A k \in 1..Len(acts) : acts[k] \in {0, k} }

LookupOutcomes == {"found", "none", "error"}

CallOutcomes == {"ok", "error"}

\* a lookup after which the story is generated even when one was found
AlwaysGenerate(r) == "generate"

\* after get_story_by_place: continue with the next activity when a story
\* was found, generate one when none was found or the lookup failed
AfterLookup(r) == IF r = "found" THEN "lookup" ELSE "generate"

InitStory ==
    /\ scenario = "program"
    /\ state = InitialState
    /\ pc = "schedule"
    /\ triggered = Successors(START)
    /\ inflight = {}
    /\ snapshot = InitialState
    /\ outputs = << >>
    /\ order = << >>
    /\ fatal = "none"
    /\ entries = [n \in Nodes |-> 0]
    /\ adjustCount = 0
    /\ alwaysOver = TRUE
    /\ lastExecuted = {}
    /\ lastLabel = "none"
    /\ returned = NoReturn
    /\ result = NoReturn
    /\ diagnostics = {}
    /\ written = {}
    /\ \E acts \in StoryInputs : probe = [in |-> <<acts>>, out |-> << >>]

StoryUnchanged ==
    UNCHANGED <<scenario, state, pc, triggered, inflight, snapshot, outputs,
                order, fatal, entries, adjustCount, alwaysOver, lastExecuted,
                lastLabel, returned, result, diagnostics, written>>

\* the node is entered; with no activities it returns at once
StoryStart ==
    /\ Len(probe.in) = 1
    /\ probe.out = << >>
    /\ probe' = [probe EXCEPT !.out =
                    <<[i |-> 1, step |-> "lookup", log |-> << >>,
                       activity_stories |-> {},
                       done |-> probe.in[1] = << >>]>>]
    /\ StoryUnchanged

\* an activity without id is passed over
StorySkip ==
    /\ Len(probe.out) = 1
    /\ LET p == probe.out[1]
           acts == probe.in[1]
       IN  /\ ~p.done
           /\ p.step = "lookup"
           /\ p.i <= Len(acts)
           /\ acts[p.i] = 0
           /\ probe' = [probe EXCEPT !.out = <<[p EXCEPT !.i = p.i + 1]>>]
    /\ StoryUnchanged

\* step 1: get_story_by_place
StoryLookup ==
    /\ Len(probe.out) = 1
    /\ LET p == probe.out[1]
           acts == probe.in[1]
       IN  /\ ~p.done
           /\ p.step = "lookup"
           /\ p.i <= Len(acts)
           /\ acts[p.i] # 0
           /\ \E r \in LookupOutcomes :
                 probe' = [probe EXCEPT !.out =
                    <<[p EXCEPT
                        !.log = Append(p.log,
                                       <<"get_story_by_place", acts[p.i], r>>),
                        !.activity_stories =
                            IF r = "found"
                            THEN p.activity_stories \cup {<<acts[p.i], "db">>}
                            ELSE p.activity_stories,
                        !.step = AfterLookup(r),
                        !.i = IF AfterLookup(r) = "lookup"
                              THEN p.i + 1 ELSE p.i]>>]
    /\ StoryUnchanged

\* step 2: llm.invoke
StoryGenerate ==
    /\ Len(probe.out) = 1
    /\ LET p == probe.out[1]
           acts == probe.in[1]
       IN  /\ p.step = "generate"
           /\ \E r \in CallOutcomes :
                 probe' = [probe EXCEPT !.out =
                    <<[p EXCEPT
                        !.log = Append(p.log, <<"llm.invoke", acts[p.i], r>>),
                        !.activity_stories =
                            IF r = "ok"
                            THEN { s \in p.activity_stories :
                                      s[1] # acts[p.i] }
                                    \cup {<<acts[p.i], "new">>}
                            ELSE p.activity_stories,
                        !.step = IF r = "ok" THEN "store" ELSE "lookup",
                        !.i = IF r = "ok" THEN p.i ELSE p.i + 1]>>]
    /\ StoryUnchanged

\* step 3: store_place_story; a failed save is only reported
StoryStore ==
    /\ Len(probe.out) = 1
    /\ LET p == probe.out[1]
           acts == probe.in[1]
       IN  /\ p.step = "store"
           /\ \E r \in CallOutcomes :
                 probe' = [probe EXCEPT !.out =
                    <<[p EXCEPT
                        !.log = Append(p.log,
                                       <<"store_place_story", acts[p.i], r>>),
                        !.step = "lookup",
                        !.i = p.i + 1]>>]
    /\ StoryUnchanged

\* every activity was processed: the node returns activity_stories
StoryReturn ==
    /\ Len(probe.out) = 1
    /\ LET p == probe.out[1]
       IN  /\ ~p.done
           /\ p.step = "lookup"
           /\ p.i > Len(probe.in[1])
           /\ probe' = [probe EXCEPT !.out = <<[p EXCEPT !.done = TRUE]>>]
    /\ StoryUnchanged

NextStory ==
    \/ StoryStart
    \/ StorySkip
    \/ StoryLookup
    \/ StoryGenerate
    \/ StoryStore
    \/ StoryReturn

SpecStory == InitStory /\ [][NextStory]_vars

---------------------------------------------------------------------------
(* get_qdrant_client and reset_client: the module-level client *)

\* values of QDRANT_HOST
ConfiguredHosts == {"localhost", "qdrant", "db.example"}

\* hosts_to_try: localhost, then the configured host, then qdrant
HostsToTry(host) ==
    LET first == <<"localhost">>
        second == IF host # "localhost" THEN Append(first, host) ELSE first
    IN  IF \A k \in 1..Len(second) : second[k] # "qdrant"
        THEN Append(second, "qdrant") ELSE second

\* None
NoClient == 0

\* an except branch that leaves the client it failed with in place
KeepClient(client) == client

\* except: if _qdrant_client: _qdrant_client = None
AfterFailure(client) == NoClient

NoResult == [kind |-> "none", client |-> NoClient]

InitQdrant ==
    /\ scenario = "program"
    /\ state = InitialState
    /\ pc = "schedule"
    /\ triggered = Successors(START)
    /\ inflight = {}
    /\ snapshot = InitialState
    /\ outputs = << >>
    /\ order = << >>
    /\ fatal = "none"
    /\ entries = [n \in Nodes |-> 0]
    /\ adjustCount = 0
    /\ alwaysOver = TRUE
    /\ lastExecuted = {}
    /\ lastLabel = "none"
    /\ returned = NoReturn
    /\ result = NoReturn
    /\ diagnostics = {}
    /\ written = {}
    /\ \E host \in ConfiguredHosts :
          probe = [in |-> <<HostsToTry(host)>>,
                   out |-> <<[client |-> NoClient, tested |-> {},
                              created |-> 0, calls |-> 0, host |-> 0,
                              phase |-> "idle", contacted |-> << >>,
                              last |-> NoResult]>>]

QdrantUnchanged ==
    UNCHANGED <<scenario, state, pc, triggered, inflight, snapshot, outputs,
                order, fatal, entries, adjustCount, alwaysOver, lastExecuted,
                lastLabel, returned, result, diagnostics, written>>

\* the host after host k, or the end of the loop
NextHost(p, hosts) ==
    IF p.host < Len(hosts)
    THEN [p EXCEPT !.host = p.host + 1, !.phase = "connect"]
    ELSE [p EXCEPT !.phase = "raise"]

\* get_qdrant_client() is called: the client is returned at once when there
\* is one, otherwise the hosts are tried
GetQdrantClient ==
    LET p == probe.out[1]
    IN  /\ p.phase = "idle"
        /\ p.calls < MaxCalls
        /\ probe' = [probe EXCEPT !.out =
              <<IF p.client # NoClient
                THEN [p EXCEPT !.calls = p.calls + 1,
                               !.contacted = << >>,
                               !.last = [kind |-> "client",
                                         client |-> p.client]]
                ELSE [p EXCEPT !.calls = p.calls + 1,
                               !.contacted = << >>,
                               !.host = 1,
                               !.phase = "connect",
                               !.last = NoResult]>>]
        /\ QdrantUnchanged

\* _qdrant_client = QdrantClient(host=host, ...), which may raise
QdrantConnect ==
    LET p == probe.out[1]
        hosts == probe.in[1]
    IN  /\ p.phase = "connect"
        /\ \E ok \in BOOLEAN :
              probe' = [probe EXCEPT !.out =
                <<IF ok
                  THEN [p EXCEPT !.client = p.created + 1,
                                 !.created = p.created + 1,
                                 !.contacted = Append(p.contacted,
                                                      hosts[p.host]),
                                 !.phase = "test"]
                  ELSE NextHost([p EXCEPT
                                    !.client = IF p.client # NoClient
                                               THEN AfterFailure(p.client)
                                               ELSE p.client,
                                    !.contacted = Append(p.contacted,
                                                         hosts[p.host])],
                                hosts)>>]
        /\ QdrantUnchanged

\* _qdrant_client.get_collections(): the connection test
QdrantTest ==
    LET p == probe.out[1]
        hosts == probe.in[1]
    IN  /\ p.phase = "test"
        /\ \E ok \in BOOLEAN :
              probe' = [probe EXCEPT !.out =
                <<IF ok
                  THEN [p EXCEPT !.tested = p.tested \cup {p.client},
                                 !.phase = "idle",
                                 !.host = 0,
                                 !.last = [kind |-> "client",
                                           client |-> p.client]]
                  ELSE NextHost([p EXCEPT
                                    !.client = AfterFailure(p.client)],
                                hosts)>>]
        /\ QdrantUnchanged

\* every host failed: raise ConnectionError
QdrantRaise ==
    LET p == probe.out[1]
    IN  /\ p.phase = "raise"
        /\ probe' = [probe EXCEPT !.out =
              <<[p EXCEPT !.phase = "idle",
                          !.host = 0,
                          !.last = [kind |-> "ConnectionError",
                                    client |-> NoClient]]>>]
        /\ QdrantUnchanged

\* reset_client()
reset_client ==
    LET p == probe.out[1]
    IN  /\ p.phase = "idle"
        /\ probe' = [probe EXCEPT !.out =
              <<[p EXCEPT !.client = NoClient, !.last = NoResult]>>]
        /\ QdrantUnchanged

NextQdrant ==
    \/ GetQdrantClient
    \/ QdrantConnect
    \/ QdrantTest
    \/ QdrantRaise
    \/ reset_client

SpecQdrant == InitQdrant /\ [][NextQdrant]_vars

---------------------------------------------------------------------------
(* The router evaluated on its own *)

RouterKeys == {"requires_adjustment", "adjustment_iteration", "max_iterations"}

\* the States the router is evaluated on: the three keys it reads, each one
\* present or absent
RouterInputs ==
    { [k \in keys |-> full[k]] :
        full \in [requires_adjustment : BOOLEAN,
                  adjustment_iteration : 0..MaxCounter,
                  max_iterations : 0..MaxCounter],
        keys \in SUBSET RouterKeys }

InitShouldAdjust ==
    /\ scenario = "program"
    /\ state = InitialState
    /\ pc = "schedule"
    /\ triggered = Successors(START)
    /\ inflight = {}
    /\ snapshot = InitialState
    /\ outputs = << >>
    /\ order = << >>
    /\ fatal = "none"
    /\ entries = [n \in Nodes |-> 0]
    /\ adjustCount = 0
    /\ alwaysOver = TRUE
    /\ lastExecuted = {}
    /\ lastLabel = "none"
    /\ returned = NoReturn
    /\ result = NoReturn
    /\ diagnostics = {}
    /\ written = {}
    /\ \E st \in RouterInputs : probe = [in |-> <<st>>, out |-> << >>]

\* should_adjust_budget(state) is called and returns
EvaluateShouldAdjust ==
    /\ Len(probe.in) = 1
    /\ probe.out = << >>
    /\ probe' = [probe EXCEPT !.out = <<should_adjust_budget(probe.in[1])>>]
    /\ UNCHANGED <<scenario, state, pc, triggered, inflight, snapshot, outputs,
                   order, fatal, entries, adjustCount, alwaysOver,
                   lastExecuted, lastLabel, returned, result, diagnostics,
                   written>>

NextShouldAdjust == EvaluateShouldAdjust

SpecShouldAdjust == InitShouldAdjust /\ [][NextShouldAdjust]_vars

---------------------------------------------------------------------------
(* Properties *)

BC == "budget_coordinator"

\* the wave that is running (or has just completed its tasks) holds node n
InWave(n) == pc = "wave" /\ n \in lastExecuted

\* C1: budget_coordinator never runs before transport, accommodation,
\* activities, dining, key_phrases and story_generator have all completed
\* and been merged; its snapshot holds the fields written by all six.
C1_BarrierCorrect ==
    InWave(BC) =>
        /\ lastExecuted = {BC}
        /\ \A n \in Research :
              /\ entries[n] >= 1
              /\ \A f \in WritesOf(n) : snapshot[f] # "unset"

C1_Witness ==
    /\ pc = "wave"
    /\ BC \in inflight
    /\ entries[BC] = 1
    /\ snapshot.activity_stories = "generated"

\* C2: if every execution of budget_coordinator leaves requires_adjustment
\* true, the run takes the "adjust" loop-back exactly max_iterations times,
\* then takes "generate", runs itinerary_generator and ends.
C2_BoundedRetry ==
    (pc = "finished" /\ entries[BC] >= 1 /\ alwaysOver /\ fatal # "NodeFault")
        => /\ adjustCount = state.max_iterations
           /\ lastLabel = "generate"
           /\ entries["itinerary_generator"] = 1
           /\ fatal = "none"

\* C3: adjustment_iteration in the canonical State always equals the number
\* of "adjust" loop-backs taken so far.
C3_CounterTracksLoopbacks ==
    state.adjustment_iteration = adjustCount

\* the nodes of S in the order of their add_node calls
Registration ==
    <<"transport", "accommodation", "activities", "story_generator", "dining",
      "key_phrases", "budget_coordinator", "itinerary_generator">>

InRegistrationOrder(S) == SelectSeq(Registration, LAMBDA n : n \in S)

C5_TerminatesAtEnd ==
    (pc = "finished" /\ fatal # "NodeFault")
        => /\ fatal = "none"
           /\ triggered = {}
           /\ lastExecuted = {"itinerary_generator"}
           /\ returned = [state |-> <<state>>, error |-> "none"]

\* C6: when the router returns a label that is no key of the target map, no
\* further node is executed and run() reports RoutingError together with
\* the State merged so far, the output of budget_coordinator included.
C6_RoutingErrorAborts ==
    lastLabel = "unexpected" =>
        /\ fatal = "RoutingError"
        /\ pc # "wave"
        /\ lastExecuted = {BC}
        /\ entries[BC] = 1
        /\ entries["itinerary_generator"] = 0
        /\ state.messages[Len(state.messages)][1] = BC
        /\ state.total_cost \in Costs
        /\ pc \in {"finished", "returned"} =>
              returned = [state |-> <<state>>, error |-> "RoutingError"]

C6_Witness ==
    /\ pc = "finished"
    /\ returned.error = "RoutingError"
    /\ state.requires_adjustment

\* C7: budget_coordinator is never re-entered more often than the safety
\* ceiling allows: the loop-back that would exceed it ends the run with
\* NonTerminatingGraph and the State merged so far, whatever the State's
\* adjustment_iteration and max_iterations are.
C7_SafetyCeiling ==
    /\ \A n \in Nodes : entries[n] <= SafetyCeiling + 1
    /\ adjustCount <= SafetyCeiling + 1
    /\ (adjustCount > SafetyCeiling /\ pc \in {"finished", "returned"}) =>
          /\ returned = [state |-> <<state>>, error |-> "NonTerminatingGraph"]
          /\ entries[BC] = SafetyCeiling + 1
          /\ entries["itinerary_generator"] = 0
    /\ fatal = "NonTerminatingGraph" => adjustCount = SafetyCeiling + 1

C7_Witness ==
    /\ pc = "finished"
    /\ returned.error = "NonTerminatingGraph"
    /\ adjustCount > state.max_iterations
    /\ state.adjustment_iteration < state.max_iterations

\* the nodes for which the merge recorded the default update
Degraded == { n \in Research : \E f \in WritesOf(n) : state[f] = "default" }

C9_CallerAlwaysGetsState ==
    pc = "returned" => Len(result.state) = 1

\* C10: no task function ends with an unhandled fault.
C10_NoUnhandledFault ==
    \A n \in DOMAIN outputs : outputs[n].kind # "fault"


\* the results the task of n can compute from the State st
ComputedFrom(n, st) == { TaskOf(n, st, o) : o \in OutcomesOf(n) } \cup {Failure}

\* C11: within one wave every node works on the canonical State as it was
\* when the wave became eligible: what a node returned is computed from that
\* snapshot and holds no value written by another node of the same wave,
\* whatever order the nodes of the wave start and finish in.
C11_SnapshotIsolation ==
    pc = "wave" =>
        /\ snapshot = state
        /\ \A n \in DOMAIN outputs :
              /\ outputs[n] \in ComputedFrom(n, snapshot)
              /\ outputs[n].kind = "update" =>
                    outputs[n].update.messages
                        = snapshot.messages
                            \o <<outputs[n].update.messages[
                                    Len(outputs[n].update.messages)]>>

\* a node of the first wave ends while another one of the wave, which sorts
\* before it, has already returned its update and a third is still running
C11_Witness ==
    /\ pc = "wave"
    /\ inflight # {}
    /\ Len(order) = 2
    /\ order[1] = "transport"
    /\ order[2] = "accommodation"
    /\ outputs["transport"].kind = "update"
    /\ outputs["accommodation"].kind = "update"

\* C12: the canonical State changes only in the merge step, which runs
\* between waves while no task is running: the end of a task leaves the
\* canonical State as it was, and tasks are started only when none is
\* running, so nodes of two different waves never run at the same time.
C12_MergeOnlyMutation ==
    [][ /\ state' # state =>
              /\ pc = "wave"
              /\ inflight = {}
              /\ pc' = "schedule"
              /\ inflight' = {}
        /\ inflight' # inflight =>
              \/ /\ inflight = {}
                 /\ pc = "schedule"
                 /\ inflight' = lastExecuted'
                 /\ state' = state
              \/ /\ pc = "wave"
                 /\ inflight' \subseteq inflight
                 /\ inflight \subseteq lastExecuted
                 /\ lastExecuted' = lastExecuted
                 /\ state' = state ]_vars

\* the second wave is running on a State the first merge has written, and a
\* task of the first wave's successors has ended without changing it
C12_Witness ==
    /\ pc = "wave"
    /\ state # InitialState
    /\ state = snapshot
    /\ outputs # << >>
    /\ entries["story_generator"] = 1

\* C13: evaluating should_adjust_budget has no side effect: whenever the
\* router is evaluated on the State the wave of budget_coordinator merged,
\* the State passed to it is unchanged when it returns, whichever label it
\* returns.
C13_RouterHasNoSideEffect ==
    (/\ pc = "wave"
     /\ inflight = {}
     /\ BC \in DOMAIN outputs
     /\ outputs[BC].kind = "update") =>
        LET merged == MergeWave(state, outputs, order)
        IN  should_adjust_budget(merged).state = merged

\* position of a node in the order of the node names
Rank(n) == CHOOSE i \in 1..Len(NodeOrder) : NodeOrder[i] = n

\* of the nodes of the wave that write field f, the one whose name is last
LastWriter(f, outs) ==
    CHOOSE n \in WritersOf(f, outs) :
        \A m \in WritersOf(f, outs) : Rank(m) <= Rank(n)

\* C14: when two nodes of one wave both write the same overwrite field, the
\* merge step leaves in the State the value of the writer whose name is
\* lexicographically last, whichever of them finished first; it records a
\* warning for the field and does not abort the run.
C14_ConflictLastNameWins ==
    [][ (pc = "wave" /\ pc' = "schedule") =>
            \A f \in ConflictFields(outputs) :
                /\ state'[f]
                     = Contribution(LastWriter(f, outputs),
                                    outputs[LastWriter(f, outputs)])[f]
                /\ f \in diagnostics'
                /\ fatal' = fatal ]_vars

\* a run in which transport won transport_options over dining, which ended
\* after it, and accommodation_options over accommodation; both warnings are
\* recorded and the run went on to END
C14_Witness ==
    /\ pc = "finished"
    /\ fatal = "none"
    /\ diagnostics = {"transport_options", "accommodation_options"}
    /\ state.transport_options = "options"
    /\ state.accommodation_options = "from_transport"
    /\ state.final_itinerary # "unset"

\* what the task of n contributed to messages in the wave
ContributedMessages(n, outs) ==
    IF n \in DOMAIN outs /\ "messages" \in DOMAIN Contribution(n, outs[n])
    THEN Contribution(n, outs[n]).messages
    ELSE << >>

\* the contributions to messages of the nodes seq[1..k], one after another
RECURSIVE ConcatContributions(_, _, _)
ConcatContributions(seq, k, outs) ==
    IF k = 0 THEN << >>
    ELSE ConcatContributions(seq, k - 1, outs)
            \o ContributedMessages(seq[k], outs)

\* what a merge step appended to messages
Appended(before, after) == SubSeq(after, Len(before) + 1, Len(after))

\* C15: for every wave and every completion order of its nodes, what the
\* merge step appends to messages is exactly the contributions of all nodes
\* of the wave, nothing lost and nothing added, in the order of the node
\* names; entries of a wave started on an empty trace are sorted by node.
C15_AccumulateByNodeName ==
    [][ (pc = "wave" /\ pc' = "schedule") =>
            /\ Len(state'.messages) >= Len(state.messages)
            /\ SubSeq(state'.messages, 1, Len(state.messages)) = state.messages
            /\ Appended(state.messages, state'.messages)
                 = ConcatContributions(NodeOrder, Len(NodeOrder), outputs)
            /\ state.messages = << >> =>
                  \A i, j \in 1..Len(state'.messages) :
                      i < j => Rank(state'.messages[i][1])
                                  < Rank(state'.messages[j][1]) ]_vars

\* the first wave was merged: the five contributions were appended, that of
\* accommodation first and that of transport last
C15_Witness ==
    /\ pc = "schedule"
    /\ lastExecuted = Successors(START)
    /\ Len(state.messages) = 5
    /\ state.messages[1][1] = "accommodation"
    /\ state.messages[5][1] = "transport"

\* the overwrite fields the six nodes that feed budget_coordinator write
ResearchFields == UNION { WritesOf(n) : n \in Research }

\* C16: transport, accommodation, activities, dining, key_phrases and
\* story_generator are each executed once, however many "adjust" loop-backs
\* are taken: when budget_coordinator has been entered each of the six has
\* been entered exactly once, and from then on the fields they wrote keep
\* their merged values in every step.
C16_ResearchRunsOnce ==
    [][ /\ \A n \in Research : entries'[n] <= 1
        /\ entries'[BC] >= 1 => \A n \in Research : entries'[n] = 1
        /\ entries[BC] >= 1 =>
              \A f \in ResearchFields : state'[f] = state[f] ]_vars

\* two loop-backs were taken and budget_coordinator runs a third time on the
\* options and stories the first two waves merged
C16_Witness ==
    /\ adjustCount = 2
    /\ InWave(BC)
    /\ entries[BC] = 3
    /\ \A n \in Research : entries[n] = 1
    /\ state.transport_options = "options"
    /\ state.activity_stories # "unset"

\* C17: when a node of a wave fails unrecoverably, the merge step waits for
\* every node of the wave, the outputs of the siblings that returned an
\* update are merged, no node is started afterwards, and run() then reports
\* the fatal error together with the State merged so far.
C17_FatalDrainsWave ==
    [][ /\ fatal = "NodeFault" =>
              /\ entries' = entries
              /\ inflight' \subseteq inflight
              /\ lastExecuted' = lastExecuted
        /\ (fatal = "NodeFault" /\ pc = "wave" /\ pc' = "schedule") =>
              /\ DOMAIN outputs = lastExecuted
              /\ \A n \in DOMAIN outputs :
                    outputs[n].kind = "update" =>
                        \A f \in WritesOf(n) : state'[f] = outputs[n].update[f]
        /\ (fatal = "NodeFault" /\ pc = "schedule") =>
              /\ pc' = "finished"
              /\ returned' = [state |-> <<state>>, error |-> "NodeFault"] ]_vars

\* transport failed in the first wave; dining and key_phrases, its siblings,
\* were merged, no later wave was started and run() reported the error with
\* that State
C17_Witness ==
    /\ pc = "finished"
    /\ returned.error = "NodeFault"
    /\ returned.state = <<state>>
    /\ state.transport_options = "unset"
    /\ state.dining_options = "options"
    /\ state.key_phrases # "unset"
    /\ entries["story_generator"] = 0
    /\ entries[BC] = 0

\* plain edges and the edges the target map of the conditional edge stands for
AllEdges ==
    Edges \cup { <<ConditionalSource, TargetMap[l]>> : l \in DOMAIN TargetMap }

\* what can be reached from the set S along the edges
RECURSIVE ReachableFrom(_)
ReachableFrom(S) ==
    LET next == S \cup { e[2] : e \in { d \in AllEdges : d[1] \in S } }
    IN  IF next = S THEN S ELSE ReachableFrom(next)

\* compile(): the construction error of the graph, or "ok"
Compile(registration) ==
    LET registered == { registration[i] : i \in 1..Len(registration) }
    IN  CASE \E i, j \in 1..Len(registration) :
                i # j /\ registration[i] = registration[j]
               -> "DuplicateNode"
          [] \E e \in AllEdges :
                \/ e[1] \notin registered \cup {START}
                \/ e[2] \notin registered \cup {END}
               -> "UnknownNode"
          [] \E d \in Deferred : ~ \E e \in AllEdges : e[2] = d
               -> "UnreachableDeferred"
          [] END \notin ReachableFrom({START})
               -> "NoPathToEnd"
          [] OTHER -> "ok"

\* C18: compile() accepts the graph create_trip_planner_graph builds: the
\* eight node names are distinct, every edge endpoint is a registered node
\* or START/END, budget_coordinator has an incoming edge and END is
\* reachable from START; no construction error is raised at compile() or
\* during run(), where every node triggered or running is a registered one.
C18_GraphCompiles ==
    /\ Compile(Registration) = "ok"
    /\ Cardinality({ Registration[i] : i \in 1..Len(Registration) }) = 8
    /\ Len(Registration) = 8
    /\ \A d \in Deferred : \E e \in Edges : e[2] = d
    /\ END \in ReachableFrom({START})
    /\ fatal \notin {"DuplicateNode", "UnknownNode", "UnreachableDeferred"}
    /\ triggered \cup inflight \cup lastExecuted
          \subseteq { Registration[i] : i \in 1..Len(Registration) }

\* the compiled graph ran from START to END and entered each of its eight
\* nodes
C18_Witness ==
    /\ Compile(Registration) = "ok"
    /\ pc = "finished"
    /\ fatal = "none"
    /\ \A n \in Nodes : entries[n] >= 1

\* the overwrite fields the update returned by node n holds
OverwriteFieldsOf(n) ==
    IF outputs[n].kind = "update"
    THEN DOMAIN outputs[n].update \ Accumulate
    ELSE {}

\* C19: in the supplied graph no two nodes that run in the same wave write
\* the same overwrite field: in every wave the sets of overwrite fields the
\* nodes declare, and the sets their updates hold, are pairwise disjoint;
\* only the accumulate field messages is written by more than one node, and
\* the merge never reports a conflict.
C19_NoOverwriteConflict ==
    /\ diagnostics = {}
    /\ pc = "wave" =>
          /\ ConflictFields(outputs) = {}
          /\ \A n, m \in lastExecuted :
                n # m =>
                   /\ WritesOf(n) \cap WritesOf(m) = {}
                   /\ (n \in DOMAIN outputs /\ m \in DOMAIN outputs) =>
                         OverwriteFieldsOf(n) \cap OverwriteFieldsOf(m) = {}

\* the five nodes of the first wave have all returned an update: each holds
\* messages and one overwrite field of its own
C19_Witness ==
    /\ pc = "wave"
    /\ inflight = {}
    /\ Cardinality(lastExecuted) = 5
    /\ \A n \in lastExecuted :
          /\ outputs[n].kind = "update"
          /\ "messages" \in DOMAIN outputs[n].update
          /\ OverwriteFieldsOf(n) = WritesOf(n)

\* C20: should_adjust_budget returns "adjust" exactly when
\* requires_adjustment is true and adjustment_iteration < max_iterations,
\* and "generate" in every other case (budget OK, or ceiling reached while
\* still over budget); it returns no other label, so what it returns is a
\* key of the target map.
C20_RouterLabels ==
    Len(probe.out) = 1 =>
        LET st == probe.in[1]
            label == probe.out[1].label
            over == Get(st, "requires_adjustment", FALSE)
            below == Get(st, "adjustment_iteration", 0)
                        < Get(st, "max_iterations", MaxIterations)
        IN  /\ label = "adjust" <=> (over /\ below)
            /\ label = "generate" <=> ~(over /\ below)
            /\ label \in {"adjust", "generate"}
            /\ label \in DOMAIN TargetMap

\* the router was evaluated on a State still over budget whose counter has
\* reached the ceiling, and returned "generate"
C20_Witness ==
    /\ Len(probe.out) = 1
    /\ probe.in[1] = [requires_adjustment |-> TRUE, adjustment_iteration |-> 2,
                      max_iterations |-> 2]
    /\ probe.out[1].label = "generate"

\* C21: after should_adjust_budget has returned "adjust", budget_coordinator
\* executes again: no run ends with a loop-back that was not followed by an
\* execution of budget_coordinator, so at the end of a run that took
\* loop-backs budget_coordinator was entered more often than "adjust" was
\* returned.
C21_BarrierReopensAfterAdjust ==
    pc = "finished" => (adjustCount = 0 \/ entries[BC] > adjustCount)

\* the number of node executions started so far
RECURSIVE SumEntries(_)
SumEntries(S) ==
    IF S = {} THEN 0
    ELSE LET n == CHOOSE m \in S : TRUE
         IN  entries[n] + SumEntries(S \ {n})

\* C24: messages holds one entry per node execution and none twice: the
\* update a node returns for messages holds only the entry the node adds,
\* not the entries of its snapshot, and the merged trace is never longer
\* than the number of node executions.
C24_OneEntryPerExecution ==
    /\ \A n \in DOMAIN outputs :
          outputs[n].kind = "update" => Len(outputs[n].update.messages) = 1
    /\ Len(state.messages) <= SumEntries(Nodes)
    /\ \A i, j \in 1..Len(state.messages) :
          (i # j /\ state.messages[i][1] # BC) =>
              state.messages[i] # state.messages[j]

\* C25: whatever budget_coordinator arrives at on each execution, over
\* budget or not, it is executed at most max_iterations + 1 times in a run.
C25_CoordinatorExecutionsBounded ==
    entries[BC] <= state.max_iterations + 1

\* C23: the first wave of a run consists of exactly transport,
\* accommodation, activities, dining and key_phrases; story_generator starts
\* only when activities has completed and its output has been merged: the
\* snapshot story_generator receives holds the activities_options that
\* activities wrote.
C23_FirstWaveAndStoryOrder ==
    /\ (pc = "wave" /\ entries["story_generator"] = 0) =>
          /\ lastExecuted = {"transport", "accommodation", "activities",
                             "dining", "key_phrases"}
          /\ \A n \in Nodes : entries[n] = IF n \in lastExecuted THEN 1 ELSE 0
    /\ InWave("story_generator") =>
          /\ entries["activities"] = 1
          /\ "activities" \notin inflight
          /\ snapshot.activities_options \in {"options", "empty"}
          /\ snapshot.activities_options = state.activities_options
          /\ <<"activities", snapshot.activities_options, 0>>
                \in { snapshot.messages[i] : i \in 1..Len(snapshot.messages) }

\* story_generator is running on the options activities found, while
\* budget_coordinator has not run yet
C23_Witness ==
    /\ InWave("story_generator")
    /\ "story_generator" \in inflight
    /\ snapshot.activities_options = "options"
    /\ entries[BC] = 0

\* C22: in every run started from the initial State of
\* transform_request_to_state, every State field a node reads when it
\* executes is a key of the initial State or was written by a node merged in
\* an earlier wave; no node reads a field that nothing has written.
C22_ReadsAreWritten ==
    pc = "wave" =>
        \A n \in lastExecuted : ReadsOf(n) \subseteq InitialFields \cup written

\* itinerary_generator is running: the selections and cost figures it reads
\* were written by budget_coordinator, the stories by story_generator
C22_Witness ==
    /\ InWave("itinerary_generator")
    /\ "itinerary_generator" \in inflight
    /\ SelectionFields \subseteq written
    /\ {"activity_stories", "key_phrases", "total_cost"} \subseteq written

\* C26: every output of budget_coordinator_node, on the LLM path and on the
\* fallback path alike, holds remaining_budget = budget - total_cost and
\* requires_adjustment = (total_cost > budget), where total_cost is the sum
\* of the components transport, accommodation, activities, dining and
\* miscellaneous of cost_breakdown.
C26_BudgetArithmetic ==
    Len(probe.out) = 1 =>
        LET st == probe.in[1]
            out == probe.out[1]
            cb == out.cost_breakdown
        IN  /\ out.total_cost = cb.transport + cb.accommodation
                                  + cb.activities + cb.dining
                                  + cb.miscellaneous
            /\ cb.total = out.total_cost
            /\ cb.miscellaneous = st.duration * MiscPerDay
            /\ out.remaining_budget = st.budget - out.total_cost
            /\ out.requires_adjustment = (out.total_cost > st.budget)

\* the LLM path, over budget by one: one day, a transport of price 1, an
\* activity of price 1 and a restaurant of cost 1 selected against a budget
\* of 22
C26_Witness ==
    /\ Len(probe.out) = 1
    /\ probe.in[2].parsed
    /\ probe.in[1].duration = 1
    /\ probe.out[1].cost_breakdown.transport = 1
    /\ probe.out[1].cost_breakdown.accommodation = 0
    /\ probe.out[1].cost_breakdown.activities = 1
    /\ probe.out[1].cost_breakdown.dining = 1
    /\ probe.out[1].total_cost = MiscPerDay + 3
    /\ probe.out[1].remaining_budget = MaxOptions - 3
    /\ probe.out[1].requires_adjustment = (MaxOptions < 3)

\* the items of a list
Items(seq) == { seq[i] : i \in 1..Len(seq) }

\* an optional selection taken from the offered options: one of them, or
\* None exactly when none is offered
ChosenFrom(selected, opts) ==
    IF opts = << >> THEN selected = << >>
    ELSE Len(selected) = 1 /\ selected[1] \in Items(opts)

\* C27: in every output of budget_coordinator_node, selected_transport and
\* selected_accommodation are members of transport_options and
\* accommodation_options, or None exactly when the option list is empty, and
\* selected_activities and selected_restaurants hold only items of
\* activities_options and dining_options; an id of the LLM that matches no
\* offered option never yields an item outside the offered options.
C27_SelectionsAreOffered ==
    Len(probe.out) = 1 =>
        LET st == probe.in[1]
            out == probe.out[1]
        IN  /\ ChosenFrom(out.selected_transport, st.transport_options)
            /\ ChosenFrom(out.selected_accommodation, st.accommodation_options)
            /\ Items(out.selected_activities) \subseteq Items(st.activities_options)
            /\ Items(out.selected_restaurants) \subseteq Items(st.dining_options)

\* the LLM named ids that match no offered option: the first transport
\* offered is selected, and no activity, although some are offered
C27_Witness ==
    /\ Len(probe.out) = 1
    /\ probe.in[2].parsed
    /\ probe.in[2].selected_transport_id = 0
    /\ probe.in[2].selected_activity_ids = {0}
    /\ Len(probe.in[1].transport_options) = MaxOptions
    /\ Len(probe.in[1].activities_options) = MaxOptions
    /\ probe.out[1].selected_transport = <<probe.in[1].transport_options[1]>>
    /\ probe.out[1].selected_activities = << >>

\* C28: for a search result of N options with distinct ids and any answer
\* of the LLM (any list of ids, a parse failure or an exception of the
\* call), each of transport_node, accommodation_node, activities_node and
\* dining_node returns exactly min(10, N) options, all taken from the search
\* result and none repeated.
C28_TopTenOfSearch ==
    Len(probe.out) = 1 =>
        LET all == probe.in[1].all
            options == probe.out[1]
        IN  /\ Len(options) = Min(TopN, Len(all))
            /\ Items(options) \subseteq Items(all)
            /\ Cardinality(Items(options)) = Len(options)

\* accommodation_node found eleven hotels of rising rating and the LLM named
\* two of them and an id of none: the two come first, filled up to ten with
\* the best rated of the others
C28_Witness ==
    /\ Len(probe.out) = 1
    /\ probe.in[1].node = "accommodation"
    /\ Len(probe.in[1].all) = TopN + 1
    /\ probe.in[1].all[2].score = 2
    /\ probe.in[2].parsed
    /\ probe.in[2].selected_ids = {0, 1, 2}
    /\ Len(probe.out[1]) = TopN
    /\ probe.out[1][1].id = 1
    /\ probe.out[1][2].id = 2
    /\ probe.out[1][3].id = TopN + 1
    /\ probe.out[1][TopN].id = 4

\* the calls story_generator_node has made for the activity of id a, in order
CallsFor(a) ==
    SelectSeq(probe.out[1].log, LAMBDA c : c[2] = a)

\* C29: for every activity with a non-empty id, story_generator_node first
\* looks the story up, calls the LLM only when the lookup found none or
\* failed, and calls store_place_story only after a successful generation;
\* a story the lookup found is never generated or saved again, and the
\* generated story stays in activity_stories when the save failed.
C29_LookupGenerateStore ==
    Len(probe.out) = 1 =>
        LET p == probe.out[1]
        IN  /\ \A k \in 1..Len(p.log) : p.log[k][2] # 0
            /\ \A a \in 1..MaxActivities :
                  LET calls == CallsFor(a)
                  IN  /\ Len(calls) <= 3
                      /\ Len(calls) >= 1 =>
                            calls[1][1] = "get_story_by_place"
                      /\ Len(calls) >= 2 =>
                            /\ calls[1][3] \in {"none", "error"}
                            /\ calls[2][1] = "llm.invoke"
                      /\ Len(calls) = 3 =>
                            /\ calls[2][3] = "ok"
                            /\ calls[3][1] = "store_place_story"
                      /\ (Len(calls) >= 1 /\ calls[1][3] = "found") =>
                            /\ Len(calls) = 1
                            /\ <<a, "db">> \in p.activity_stories
                      /\ (Len(calls) >= 2 /\ calls[2][3] = "ok") =>
                            <<a, "new">> \in p.activity_stories
                      /\ (Len(calls) >= 2 /\ calls[2][3] = "error") =>
                            /\ Len(calls) = 2
                            /\ \A s \in p.activity_stories : s[1] # a
                      /\ (p.done /\ Len(calls) >= 2 /\ calls[2][3] = "ok") =>
                            Len(calls) = 3

\* the node returned: the story of activity 1 came from the store and was
\* neither generated nor saved; that of activity 2 was generated after a
\* failed lookup and is kept although the save failed
C29_Witness ==
    /\ Len(probe.out) = 1
    /\ probe.out[1].done
    /\ probe.out[1].log
          = << <<"get_story_by_place", 1, "found">>,
               <<"get_story_by_place", 2, "error">>,
               <<"llm.invoke", 2, "ok">>,
               <<"store_place_story", 2, "error">> >>
    /\ probe.out[1].activity_stories = {<<1, "db">>, <<2, "new">>}

\* C30: between calls of get_qdrant_client the module-level client is None
\* or a client whose connection test succeeded; a call in which every host
\* (localhost, then the configured host, then qdrant) failed has contacted
\* each of them in that order, raises ConnectionError and leaves the client
\* None, so that the next call tries the hosts again; a call made while
\* there is a client returns that instance and contacts no host.
C30_ClientNoneOrTested ==
    [][ LET p == probe.out[1]
            q == probe'.out[1]
            hosts == probe.in[1]
        IN  /\ q.phase = "idle" =>
                  \/ q.client = NoClient
                  \/ q.client \in q.tested
            /\ (q.phase = "idle" /\ q.last.kind = "ConnectionError") =>
                  /\ q.client = NoClient
                  /\ q.contacted = hosts
            /\ (p.phase = "idle" /\ q.calls = p.calls + 1) =>
                  IF p.client = NoClient
                  THEN q.phase = "connect" /\ q.host = 1
                  ELSE /\ q.phase = "idle"
                       /\ q.client = p.client
                       /\ q.last = [kind |-> "client", client |-> p.client]
                       /\ q.contacted = << >>
                       /\ q.created = p.created ]_vars

\* an earlier call failed on every host and raised, a later one tried the
\* hosts again and connected, and the last call returned that instance
\* without contacting a host
C30_Witness ==
    LET p == probe.out[1]
    IN  /\ probe.in[1] = <<"localhost", "db.example", "qdrant">>
        /\ p.phase = "idle"
        /\ p.calls = 3
        /\ p.created = 4
        /\ p.client = 4
        /\ p.tested = {4}
        /\ p.last = [kind |-> "client", client |-> 4]
        /\ p.contacted = << >>

====
